---- MODULE Spec2Model ----
(***************************************************************************)
(* A model of typ-js (src/lib.rs): the TypJs adapter that answers the      *)
(* typst engine's World queries from an in-memory, lock-guarded file map   *)
(* and turns compilation results into SVG/PDF output plus a diagnostics    *)
(* list.                                                                   *)
(*                                                                         *)
(* A string that is used as a path is represented by the sequence of its   *)
(* path components ("./img.png" is <<".", "img.png">>); the component "/"      *)
(* stands for the root.  A text is the sequence of its code points, a      *)
(* binary blob the sequence of its bytes.                                  *)
(***************************************************************************)
EXTENDS Integers, Sequences, FiniteSets, Bags, TLC

(* ------------------------------ bounds --------------------------------- *)

\* longest text (in code points) and longest blob (in bytes) the host passes
MaxLen == 1
\* number of svg()/pdf() calls that are followed
MaxCompiles == 2
\* number of threads of the host that call into one adapter
MaxThreads == 2
\* number of times the wall clock is seen to advance
MaxTicks == 2
MaxQueries == 2

(* ------------------------------ inputs --------------------------------- *)

RootDir == "/"
CurDir == "."
ParentDir == ".."

\* the file names the host passes to write / attach / delete
Names ==
    { <<"main.typ">>, <<"img.png">>,
      <<".", "img.png">>, <<"img.png", "..", "main.typ">> }

\* code points of the texts the host writes, byte values of the blobs
Chars == {233}
ByteVals == {255}

RECURSIVE SeqsUpTo(_, _)
SeqsUpTo(S, n) ==
    IF n = 0 THEN {<<>>}
    ELSE LET shorter == SeqsUpTo(S, n - 1)
         IN  shorter \cup {Append(s, x) : s \in shorter, x \in S}

\* page counts of the documents the engine produces
PageCounts == {2}

Texts == SeqsUpTo(Chars, MaxLen)
Blobs == SeqsUpTo(ByteVals, MaxLen)

(* --------------------------- path handling ----------------------------- *)

\* format!("/{name}")
SlashName(name) == <<RootDir>> \o name

\* VirtualPath::new: the path is re-rooted and normalised component by
\* component ("." is dropped, ".." pops a preceding normal component).
RECURSIVE Normalise(_, _)
Normalise(out, rest) ==
    IF rest = <<>> THEN out
    ELSE LET c == Head(rest)
         IN  IF c = RootDir \/ c = CurDir
               THEN Normalise(out, Tail(rest))
             ELSE IF c = ParentDir
               THEN IF Len(out) > 1 /\ out[Len(out)] # ParentDir
                      THEN Normalise(SubSeq(out, 1, Len(out) - 1), Tail(rest))
                      ELSE Normalise(Append(out, c), Tail(rest))
             ELSE Normalise(Append(out, c), Tail(rest))

VirtualPathNew(path) == Normalise(<<RootDir>>, path)

\* VirtualPath::as_rootless_path
AsRootlessPath(vpath) ==
    IF vpath # <<>> /\ Head(vpath) = RootDir THEN Tail(vpath) ELSE vpath

FileIdNew(package, vpath) == [package |-> package, vpath |-> vpath]

from_path(path) == FileIdNew("None", VirtualPathNew(path))

\* from_name that puts the files under a directory of their own
from_name_in_dir(name) ==
    FileIdNew("None", VirtualPathNew(<<RootDir, "files">> \o name))

from_name(name) == FileIdNew("None", VirtualPathNew(SlashName(name)))

MainPath == <<RootDir, "main.typ">>

\* "typ-js is ready"
ReadyText ==
    <<116, 121, 112, 45, 106, 115, 32, 105, 115, 32, 114, 101, 97, 100, 121>>

(* ---------------------------- file entries ----------------------------- *)

SourceNew(id, text) == [id |-> id, text |-> text]

TextEntry(source) == [kind |-> "Text", source |-> source]

BinEntry(bytes) == [kind |-> "Bin", bytes |-> bytes]

\* HashMap::insert and HashMap::remove
MapInsert(map, k, v) == (k :> v) @@ map

\* the variant of the entry HashMap::insert or HashMap::remove returns (and
\* the caller drops)
InsertReturn(map, k) == IF k \in DOMAIN map THEN map[k].kind ELSE "None"

RemoveReturn(map, k) == IF k \in DOMAIN map THEN map[k].kind ELSE "None"

MapRemove(map, k) == [i \in DOMAIN map \ {k} |-> map[i]]

VARIABLES
    main,       \* TypJs.main
    files,      \* the map inside TypJs.files
    poisoned,   \* TypJs.files' mutex is poisoned
    errors,     \* TypJs.errors
    compiles,   \* number of compilations started so far
    last,       \* the last call of the host or engine and its outcome
    book,       \* TypJs.book: the FontInfo of every face, in order
    fonts,      \* TypJs.fonts
    now,        \* TypJs.now: <<>> while unset, <<snapshot>> once set
    clock,      \* the wall clock and time zone Local::now() reads
    pc,         \* where each thread is inside the call it is making
    holder      \* the thread that holds the guard of TypJs.files, or 0

catalog == <<book, fonts>>

sched == <<pc, holder>>

\* what the calls on the file store and the sink leave alone
aside == <<catalog, clock, sched>>

vars ==
    <<main, files, poisoned, errors, compiles, last, catalog, now, clock,
      sched>>

(* ------------------------------ the fonts ------------------------------ *)

\* the font data new() scans (typst_assets::fonts() chained with the bundled
\* JetBrains Mono files): for every blob, the faces Font::iter finds in it
FontBundle ==
    << <<"Libertinus Serif">>,
       <<"New Computer Modern", "New Computer Modern Math">>,
       <<>>,
       <<"JetBrains Mono">>,
       <<"JetBrains Mono">> >>

\* Font::info
FontInfo(face) == [family |-> face]

\* the k-th Font of Font::iter(buffer)
FontOf(blob, k, face) == [data |-> blob, index |-> k, info |-> FontInfo(face)]

\* a loop body that puts the newest font first
PushFaceFontFirst(acc, font) ==
    [book |-> Append(acc.book, font.info), fonts |-> <<font>> \o acc.fonts]

\* the body of the inner loop of get_default_fonts
PushFace(acc, font) ==
    [book |-> Append(acc.book, font.info), fonts |-> Append(acc.fonts, font)]

RECURSIVE PushFaces(_, _, _, _)
PushFaces(acc, blob, faces, k) ==
    IF k > Len(faces) THEN acc
    ELSE PushFaces(PushFace(acc, FontOf(blob, k - 1, faces[k])),
                   blob, faces, k + 1)

RECURSIVE PushBlobs(_, _, _)
PushBlobs(acc, list, b) ==
    IF b > Len(list) THEN acc
    ELSE PushBlobs(PushFaces(acc, b, list[b], 1), list, b + 1)

\* TypJs::get_default_fonts
get_default_fonts == PushBlobs([book |-> <<>>, fonts |-> <<>>], FontBundle, 1)

\* World::book
WorldBook(b) == b

\* World::font: self.fonts[index] panics when index is out of range
WorldFont(fs, index) ==
    IF index < Len(fs)
      THEN [outcome |-> "returned", ret |-> <<fs[index + 1]>>]
      ELSE [outcome |-> "panicked", ret |-> <<>>]

(* ------------------------------ the clock ------------------------------ *)

\* days since 1970-01-01 of a date of the proleptic Gregorian calendar
DaysFromCivil(y, m, d) ==
    LET yy == IF m <= 2 THEN y - 1 ELSE y
        era == yy \div 400
        yoe == yy - era * 400
        mp == IF m > 2 THEN m - 3 ELSE m + 9
        doy == (153 * mp + 2) \div 5 + d - 1
        doe == yoe * 365 + yoe \div 4 - yoe \div 100 + doy
    IN  era * 146097 + doe - 719468

\* year, month and day of a day number: NaiveDateTime's year(), month(), day()
CivilFromDays(days) ==
    LET z == days + 719468
        era == z \div 146097
        doe == z - era * 146097
        yoe == (doe - doe \div 1460 + doe \div 36524 - doe \div 146096) \div 365
        doy == doe - (365 * yoe + yoe \div 4 - yoe \div 100)
        mp == (5 * doy + 2) \div 153
        d == doy - (153 * mp + 2) \div 5 + 1
        m == IF mp < 10 THEN mp + 3 ELSE mp - 9
        y == yoe + era * 400 + (IF m <= 2 THEN 1 ELSE 0)
    IN  [year |-> y, month |-> m, day |-> d]

\* the days chrono's NaiveDateTime can hold
MinNaiveDay == DaysFromCivil(0 - 262143, 1, 1)
MaxNaiveDay == DaysFromCivil(262142, 12, 31)

\* A time is a day number and an hour of that day.  An i64 number of hours
\* o is written [q |-> o div 24, r |-> o mod 24], as it can be larger than
\* the integers of the model checker.
Hours(q, r) == [q |-> q, r |-> r]

\* naive + chrono::Duration::hours(o), before the range check
AddHours(t, o) ==
    [day |-> t.day + o.q + (t.hour + o.r) \div 24,
     hour |-> (t.hour + o.r) % 24]

\* Local::now(): the instant in UTC and the offset of local time, in hours
LocalNow(c) == [utc |-> c.utc, tz |-> c.tz]

\* OnceLock::get_or_init(chrono::Local::now) when no other call is running
GetOrInit(cell, c) == IF cell = <<>> THEN <<LocalNow(c)>> ELSE cell

\* the match on offset in today()
NaiveOf(snap, offset) ==
    IF offset = <<>> THEN AddHours(snap.utc, Hours(0, snap.tz))
    ELSE AddHours(snap.utc, offset[1])

\* Datetime::from_ymd: None outside the years a Datetime can hold
FromYmd(year, month, day) ==
    IF year < 0 - 9999 \/ year > 9999 THEN <<>>
    ELSE <<[year |-> year, month |-> month, day |-> day]>>

\* World::today for a clock cell that holds snap; the addition panics when
\* the result leaves the range of NaiveDateTime
TodayOf(snap, offset) ==
    LET naive == NaiveOf(snap, offset)
    IN  IF naive.day < MinNaiveDay \/ naive.day > MaxNaiveDay
          THEN [outcome |-> "panicked", ret |-> <<>>]
          ELSE LET ymd == CivilFromDays(naive.day)
               IN  [outcome |-> "returned",
                    ret |-> FromYmd(ymd.year, ymd.month, ymd.day)]

(* ------------------------- the engine's queries ------------------------ *)

FileOk(val) == [tag |-> "Ok", val |-> val]

FileErr(tag, path) == [tag |-> tag, path |-> path]

\* Mutex::lock: fails exactly when the mutex is poisoned
LockIsErr(p) == p

\* main() that answers the identifier of the empty path
WorldMainEmptyPath(m) == FileIdNew("None", VirtualPathNew(<<>>))

\* World::main
WorldMain(m) == m

\* source() that answers an empty source for a missing file
WorldSourceMissingAsEmpty(fs, p, id) ==
    IF LockIsErr(p) THEN FileErr("AccessDenied", <<>>)
    ELSE IF id \in DOMAIN fs
      THEN IF fs[id].kind = "Text"
             THEN FileOk(fs[id].source)
             ELSE FileErr("NotSource", <<>>)
    ELSE FileOk([id |-> id, text |-> <<>>])

\* source() that reports a binary entry as missing
WorldSourceBinAsMissing(fs, p, id) ==
    IF LockIsErr(p) THEN FileErr("AccessDenied", <<>>)
    ELSE IF id \in DOMAIN fs /\ fs[id].kind = "Text"
      THEN FileOk(fs[id].source)
    ELSE FileErr("NotFound", AsRootlessPath(id.vpath))

\* World::source
WorldSource(fs, p, id) ==
    IF LockIsErr(p) THEN FileErr("AccessDenied", <<>>)
    ELSE IF id \in DOMAIN fs
      THEN IF fs[id].kind = "Text"
             THEN FileOk(fs[id].source)
             ELSE FileErr("NotSource", <<>>)
    ELSE FileErr("NotFound", AsRootlessPath(id.vpath))

\* an encoding that takes every code point for one byte
BytesFromStringLatin1(text) == text

\* Bytes::from_string: the UTF-8 encoding of a text (code points < 2048)
Utf8Char(c) == IF c < 128 THEN <<c>> ELSE <<192 + (c \div 64), 128 + (c % 64)>>

RECURSIVE BytesFromString(_)
BytesFromString(text) ==
    IF text = <<>> THEN <<>>
    ELSE Utf8Char(Head(text)) \o BytesFromString(Tail(text))

\* World::file
WorldFile(fs, p, id) ==
    IF LockIsErr(p) THEN FileErr("AccessDenied", <<>>)
    ELSE IF id \in DOMAIN fs
      THEN IF fs[id].kind = "Text"
             THEN FileOk(BytesFromString(fs[id].source.text))
             ELSE FileOk(fs[id].bytes)
    ELSE FileErr("NotFound", AsRootlessPath(id.vpath))

\* the keys of the map as list() returns them: a bag, since the order of a
\* HashMap's keys is unspecified
ListPaths(fs) ==
    LET paths == {AsRootlessPath(id.vpath) : id \in DOMAIN fs}
    IN  [p \in paths |->
            Cardinality({id \in DOMAIN fs : AsRootlessPath(id.vpath) = p})]

(* ------------------------------ the engine ----------------------------- *)

\* a SourceDiagnostic; run is the compilation that reported it
Diag(run, severity, message, hints) ==
    [run |-> run, severity |-> severity, span |-> "detached",
     message |-> message, hints |-> hints]

\* the identifiers the engine may ask for
QueryIds ==
    {from_name(n) : n \in Names} \cup {from_path(<<RootDir, "a.typ">>)}

\* what the main file may refer to: nothing, or one more file that the
\* engine then asks for as a source (an import) or as bytes (an image)
Refs(m) ==
    {<<>>} \cup {<<[kind |-> k, id |-> i]>> :
                    k \in {"source", "file"}, i \in QueryIds \ {m}}

\* the answer of the adapter to the engine's query for a referred file
RefQuery(fs, p, ref) ==
    IF ref = <<>> THEN FileOk(<<>>)
    ELSE IF ref[1].kind = "source" THEN WorldSource(fs, p, ref[1].id)
    ELSE WorldFile(fs, p, ref[1].id)

\* the diagnostic the engine makes of a failed query
FileDiag(run, answer) ==
    Diag(run, "error", <<answer.tag, answer.path>>, <<>>)

\* what typst::compile can answer for the world it is given: no document and
\* a non-empty list of errors, or a document and a list of warnings.  The
\* engine starts from the source of main() and asks for the file main refers
\* to; a failed query becomes an error.
CompileResults(m, fs, p, run) ==
    LET src == WorldSource(fs, p, WorldMain(m))
    IN  IF src.tag # "Ok"
          THEN {[output |-> "Err", pages |-> 0, ref |-> <<>>, read |-> FALSE,
                 diags |-> <<FileDiag(run, src)>>]}
          ELSE UNION {
            LET q == RefQuery(fs, p, ref)
            IN  IF q.tag # "Ok"
                  THEN {[output |-> "Err", pages |-> 0, ref |-> ref,
                         read |-> TRUE, diags |-> <<FileDiag(run, q)>>]}
                  ELSE {[output |-> "Err", pages |-> 0, ref |-> ref,
                         read |-> TRUE,
                         diags |-> <<Diag(run, "error", <<"unknown variable">>,
                                          <<"hint">>)>>]}
                       \cup
                       {[output |-> "Ok", pages |-> n, ref |-> ref,
                         read |-> TRUE, diags |-> ws] :
                            n \in PageCounts,
                            ws \in {<<>>,
                                    <<Diag(run, "warning", <<"unused">>,
                                           <<>>)>>}}
            : ref \in Refs(WorldMain(m))}

\* whether the document that compiles to res may ask for today's date:
\* only a main file that was read is evaluated
MayAskToday(res) == IF res.read THEN BOOLEAN ELSE {FALSE}

\* typst_svg::svg of page i
PageSvg(i) == <<"<svg>", i>>

\* typst_pdf::pdf of a document of n pages, when it succeeds
PdfBytes(n) == <<37, 80, 68, 70, n>>

\* one line of errors()
FormatDiag(d) ==
    <<"SPAN: ", d.span, " ||| MSG: ", d.message, " ||| HINT: ", d.hints>>

(* ------------------------------- TypJs --------------------------------- *)

Call(op, arg, outcome, ret) ==
    [op |-> op, arg |-> arg, outcome |-> outcome, ret |-> ret]

NoArg == <<>>
NoRet == <<>>

\* TypJs::new: the main identifier
NewMain == from_path(MainPath)

\* new() that registers the placeholder under the empty path
NewFilesEmptyPath ==
    (from_path(<<>>) :> TextEntry(SourceNew(from_path(<<>>), ReadyText)))

\* TypJs::new: the initial file map
NewFiles ==
    (NewMain :> TextEntry(SourceNew(NewMain, ReadyText)))

Threads == 1..MaxThreads

Idle == [at |-> "idle"]

\* the wall clock when the adapter is built: 2024-12-31 23:00 UTC, local
\* time tz hours ahead of UTC
StartClock(tz) ==
    [utc |-> [day |-> DaysFromCivil(2024, 12, 31), hour |-> 23],
     tz |-> tz, ticks |-> 0]

\* TypJs::new but for the clock the host runs on
InitAdapter ==
    /\ main = NewMain
    /\ files = NewFiles
    /\ poisoned = FALSE
    /\ errors = <<>>
    /\ compiles = 0
    /\ last = Call("new", NoArg, "returned", NoRet)
    /\ book = get_default_fonts.book
    /\ fonts = get_default_fonts.fonts
    /\ now = <<>>
    /\ pc = [t \in Threads |-> Idle]
    /\ holder = 0

Init ==
    /\ InitAdapter
    /\ clock = StartClock(2)

\* delete() that keeps the named entry and drops the others
DeleteFilesKeepNamed(fs, name) ==
    [i \in DOMAIN fs \cap {from_name(name)} |-> fs[i]]

\* the map after delete(name) got the lock
DeleteFiles(fs, name) == MapRemove(fs, from_name(name))

\* TypJs::delete: lock().unwrap() panics on a poisoned mutex
Delete(name) ==
    /\ IF LockIsErr(poisoned)
         THEN /\ last' = Call("delete", [name |-> name], "panicked", NoRet)
              /\ UNCHANGED files
         ELSE /\ files' = DeleteFiles(files, name)
              /\ last' = Call("delete", [name |-> name], "returned",
                              RemoveReturn(files, from_name(name)))
    /\ UNCHANGED <<aside, now, main, poisoned, errors, compiles>>

\* TypJs::list
List ==
    /\ IF LockIsErr(poisoned)
         THEN last' = Call("list", NoArg, "panicked", NoRet)
         ELSE last' = Call("list", NoArg, "returned", ListPaths(files))
    /\ UNCHANGED <<aside, now, main, files, poisoned, errors, compiles>>

\* the strings errors() returns
ErrorsResult(errs) == [i \in 1..Len(errs) |-> FormatDiag(errs[i])]

\* TypJs::errors
Errors ==
    /\ last' = Call("errors", NoArg, "returned", ErrorsResult(errors))
    /\ UNCHANGED <<aside, now, main, files, poisoned, errors, compiles>>

\* write() that keeps an entry that is already there
WriteFilesKeepFirst(fs, filename, text) ==
    LET id == from_name(filename)
    IN  IF id \in DOMAIN fs THEN fs
        ELSE MapInsert(fs, id, TextEntry(SourceNew(id, text)))

\* the map after write(filename, text) got the lock
WriteFiles(fs, filename, text) ==
    LET id == from_name(filename)
    IN  MapInsert(fs, id, TextEntry(SourceNew(id, text)))

\* write() that also clears the diagnostics of the last compilation
WriteClearsErrors(filename, text) ==
    /\ ~LockIsErr(poisoned)
    /\ files' = WriteFiles(files, filename, text)
    /\ errors' = <<>>
    /\ last' = Call("write", [name |-> filename, text |-> text],
                    "returned", InsertReturn(files, from_name(filename)))
    /\ UNCHANGED <<aside, now, main, poisoned, compiles>>

\* TypJs::write
Write(filename, text) ==
    /\ IF LockIsErr(poisoned)
         THEN /\ UNCHANGED files
              /\ last' = Call("write", [name |-> filename, text |-> text],
                              "returned", "NoLock")
         ELSE /\ files' = WriteFiles(files, filename, text)
              /\ last' = Call("write", [name |-> filename, text |-> text],
                              "returned",
                              InsertReturn(files, from_name(filename)))
    /\ UNCHANGED <<aside, now, main, poisoned, errors, compiles>>

\* attach() that keeps an entry that is already there
AttachFilesKeepFirst(fs, filename, data) ==
    LET path == SlashName(filename)
        id == from_path(path)
    IN  IF id \in DOMAIN fs THEN fs ELSE MapInsert(fs, id, BinEntry(data))

\* the map after attach(filename, data) got the lock
AttachFiles(fs, filename, data) ==
    LET path == SlashName(filename)
        id == from_path(path)
    IN  MapInsert(fs, id, BinEntry(data))

\* TypJs::attach
Attach(filename, data) ==
    /\ IF LockIsErr(poisoned)
         THEN /\ UNCHANGED files
              /\ last' = Call("attach", [name |-> filename, data |-> data],
                              "returned", "NoLock")
         ELSE /\ files' = AttachFiles(files, filename, data)
              /\ last' = Call("attach", [name |-> filename, data |-> data],
                              "returned",
                              InsertReturn(files, from_path(SlashName(filename))))
    /\ UNCHANGED <<aside, now, main, poisoned, errors, compiles>>

\* a sink that is extended instead of replaced
SinkAfterExtend(errs, res) == errs \o res.diags

\* a sink that is only set when the compilation failed
SinkAfterErrOnly(errs, res) == IF res.output = "Err" THEN res.diags ELSE errs

\* self.errors after a compilation that answered res
SinkAfter(errs, res) == res.diags

\* what svg() returns for the engine's answer
SvgReturn(res) ==
    IF res.output = "Err" THEN <<>>
    ELSE [i \in 1..res.pages |-> PageSvg(i)]

\* TypJs::svg
Svg ==
    /\ compiles < MaxCompiles
    /\ \E res \in CompileResults(main, files, poisoned, compiles + 1) :
        \E today \in MayAskToday(res) :
          /\ errors' = SinkAfter(errors, res)
          /\ now' = (IF today THEN GetOrInit(now, clock) ELSE now)
          /\ last' = Call("svg", [res |-> res], "returned", SvgReturn(res))
    /\ compiles' = compiles + 1
    /\ UNCHANGED <<aside, main, files, poisoned>>

\* pdf() that returns the file header when the encoder fails
PdfReturnHeaderOnly(res, encoded) ==
    IF res.output = "Err" THEN <<>>
    ELSE IF encoded THEN <<37, 80, 68, 70, res.pages>> ELSE <<37, 80, 68, 70>>

\* what pdf() returns for the engine's answer; encoded tells whether
\* typst_pdf::pdf succeeded
PdfReturn(res, encoded) ==
    IF res.output = "Err" THEN <<>>
    ELSE IF encoded THEN PdfBytes(res.pages) ELSE <<>>

\* TypJs::pdf
Pdf ==
    /\ compiles < MaxCompiles
    /\ \E res \in CompileResults(main, files, poisoned, compiles + 1) :
        \E encoded \in (IF res.output = "Ok" THEN BOOLEAN ELSE {FALSE}) :
        \E today \in MayAskToday(res) :
          /\ errors' = SinkAfter(errors, res)
          /\ now' = (IF today THEN GetOrInit(now, clock) ELSE now)
          /\ last' = Call("pdf", [res |-> res, encoded |-> encoded],
                          "returned", PdfReturn(res, encoded))
    /\ compiles' = compiles + 1
    /\ UNCHANGED <<aside, main, files, poisoned>>

\* a call of World::main
Main ==
    /\ last' = Call("main", NoArg, "returned", WorldMain(main))
    /\ UNCHANGED <<aside, now, main, files, poisoned, errors, compiles>>

\* a call of World::source
Source(id) ==
    /\ last' = Call("source", [id |-> id], "returned",
                    WorldSource(files, poisoned, id))
    /\ UNCHANGED <<aside, now, main, files, poisoned, errors, compiles>>

\* a call of World::file
File(id) ==
    /\ last' = Call("file", [id |-> id], "returned",
                    WorldFile(files, poisoned, id))
    /\ UNCHANGED <<aside, now, main, files, poisoned, errors, compiles>>

\* a call of World::book
Book ==
    /\ last' = Call("book", NoArg, "returned", WorldBook(book))
    /\ UNCHANGED <<aside, now, main, files, poisoned, errors, compiles>>

\* a call of World::font
Font(index) ==
    /\ last' = Call("font", [index |-> index],
                    WorldFont(fonts, index).outcome,
                    WorldFont(fonts, index).ret)
    /\ UNCHANGED <<aside, now, main, files, poisoned, errors, compiles>>

\* the offsets today() is called with when the adapter is used by one thread
FewOffsets == {<<>>, <<Hours(0, 1)>>}

\* a call of World::today that no other call of today overlaps
Today(offset) ==
    /\ now' = GetOrInit(now, clock)
    /\ last' = Call("today", [offset |-> offset],
                    TodayOf(now'[1], offset).outcome,
                    TodayOf(now'[1], offset).ret)
    /\ UNCHANGED <<aside, main, files, poisoned, errors, compiles>>

\* a thread panics while it holds the files lock: std's Mutex is poisoned
\* from then on
Poison ==
    /\ ~poisoned
    /\ poisoned' = TRUE
    /\ last' = Call("poison", NoArg, "panicked", NoRet)
    /\ UNCHANGED <<aside, now, main, files, errors, compiles>>

Next ==
    \/ \E n \in Names : Delete(n)
    \/ List
    \/ Errors
    \/ \E n \in Names, t \in Texts : Write(n, t)
    \/ \E n \in Names, b \in Blobs : Attach(n, b)
    \/ Svg
    \/ Pdf
    \/ Main
    \/ \E id \in QueryIds : Source(id)
    \/ \E id \in QueryIds : File(id)

\* the adapter in normal operation: no holder of the lock ever panics
Spec == Init /\ [][Next]_vars

NextEngine ==
    \/ Next
    \/ Book
    \/ \E i \in 0..Len(fonts) : Font(i)
    \/ \E o \in FewOffsets : Today(o)

\* normal operation, with the engine's font and date queries
SpecEngine == Init /\ [][NextEngine]_vars

NextPoison ==
    \/ Next
    \/ Poison

\* the adapter when a holder of the lock may panic
SpecPoison == Init /\ [][NextPoison]_vars

(* ----------------------- concurrent calls of today ---------------------- *)

\* the fields the calls of today() leave alone
beside_clock == <<main, files, poisoned, errors, compiles, last, catalog>>

\* the offsets of local time the host may run with, in hours
TzOffsets == {2, 0 - 5}

\* the offsets the documents ask today() for: none, +1 h, -1 h, and two
\* large numbers of hours (4000000 and 100000000 days)
Offsets ==
    { <<>>, <<Hours(0, 1)>>, <<Hours(0 - 1, 23)>>,
      <<Hours(4000000, 0)>>, <<Hours(100000000, 0)>> }

\* a once cell that lets a thread initialise while another is initialising
OnceMayInitRacy(cell, p) == cell = <<>>

\* OnceLock: the thread that finds the cell unset, and nobody initialising
\* it, runs the initialiser; the others wait until it has finished
OnceMayInit(cell, p) ==
    /\ cell = <<>>
    /\ \A u \in Threads : p[u].at # "init"

\* thread t calls today(offset)
TodayCall(t, offset) ==
    /\ pc[t].at \in {"idle", "done"}
    /\ pc' = [pc EXCEPT ![t] = [at |-> "get", offset |-> offset]]
    /\ UNCHANGED <<beside_clock, now, clock, holder>>

\* get_or_init finds the cell unset: t is the one to run chrono::Local::now
TodayEnterInit(t) ==
    /\ pc[t].at = "get"
    /\ OnceMayInit(now, pc)
    /\ pc' = [pc EXCEPT ![t] = [at |-> "init", offset |-> pc[t].offset]]
    /\ UNCHANGED <<beside_clock, now, clock, holder>>

\* the initialiser reads the clock and the cell is set
TodayInit(t) ==
    /\ pc[t].at = "init"
    /\ now' = <<LocalNow(clock)>>
    /\ pc' = [pc EXCEPT ![t] = [at |-> "have", offset |-> pc[t].offset,
                                snap |-> now'[1]]]
    /\ UNCHANGED <<beside_clock, clock, holder>>

\* get_or_init finds the cell set
TodayGet(t) ==
    /\ pc[t].at = "get"
    /\ now # <<>>
    /\ pc' = [pc EXCEPT ![t] = [at |-> "have", offset |-> pc[t].offset,
                                snap |-> now[1]]]
    /\ UNCHANGED <<beside_clock, now, clock, holder>>

\* the rest of today(): the date computed from the reference it got
TodayReturn(t) ==
    /\ pc[t].at = "have"
    /\ pc' = [pc EXCEPT ![t] =
                [at |-> "done", offset |-> pc[t].offset, snap |-> pc[t].snap,
                 outcome |-> TodayOf(pc[t].snap, pc[t].offset).outcome,
                 ret |-> TodayOf(pc[t].snap, pc[t].offset).ret,
                 ticks |-> clock.ticks]]
    /\ UNCHANGED <<beside_clock, now, clock, holder>>

\* an hour of wall-clock time passes
Tick ==
    /\ clock.ticks < MaxTicks
    /\ clock' = [clock EXCEPT !.utc = AddHours(clock.utc, Hours(0, 1)),
                              !.ticks = clock.ticks + 1]
    /\ UNCHANGED <<beside_clock, now, pc, holder>>

InitClock ==
    /\ InitAdapter
    /\ \E tz \in TzOffsets : clock = StartClock(tz)

NextClock ==
    \/ \E t \in Threads, o \in Offsets : TodayCall(t, o)
    \/ \E t \in Threads : TodayEnterInit(t)
    \/ \E t \in Threads : TodayInit(t)
    \/ \E t \in Threads : TodayGet(t)
    \/ \E t \in Threads : TodayReturn(t)
    \/ Tick

\* threads that call today() while the clock runs
SpecClock == InitClock /\ [][NextClock]_vars

(* ------------------- calls that overlap: borrows and lock ---------------- *)

\* A thread is idle, or inside a call: before files.lock() ("want"), holding
\* the guard ("locked"), or inside typst::compile between two queries of the
\* engine ("compiling").  A query of the engine carries the compilation it
\* belongs to in the field compile.  The arguments of a call are drawn
\* where the call uses them, in its critical section; what the calls return
\* is as in Spec and is not recorded here.
InCall(op, excl, compile) ==
    [at |-> "want", op |-> op, excl |-> excl, compile |-> compile]

Compiling(op, start, asked, failed) ==
    [at |-> "compiling", op |-> op, start |-> start, asked |-> asked,
     failed |-> failed]

\* the thread holds self by &mut
Exclusive(p) ==
    \/ p.at = "compiling"
    \/ p.at \in {"want", "locked"} /\ p.excl

\* a &self method may be entered when nobody holds &mut self
MayBorrow(p, t) == \A u \in Threads \ {t} : ~Exclusive(p[u])

\* a &mut self method that is entered without a look at the other borrows
MayBorrowMutUnchecked(p, t) == TRUE

\* a &mut self method may be entered when nobody is inside a method
MayBorrowMut(p, t) == \A u \in Threads \ {t} : p[u].at = "idle"

\* the calls of the &mut self methods write, attach and delete, on one name
\* (the names and their spellings are the subject of Spec)
MutCalls ==
    [op : {"write"}, name : {<<"img.png">>}, text : Texts]
      \cup [op : {"attach"}, name : {<<"img.png">>}, data : Blobs]
      \cup [op : {"delete"}, name : {<<"img.png">>}]

\* the calls of the &self methods that use the lock
SharedCalls ==
    [op : {"list"}] \cup [op : {"source", "file"}, id : QueryIds]

\* thread t enters write, attach or delete
HostCallMut(t, op) ==
    /\ pc[t].at = "idle"
    /\ MayBorrowMut(pc, t)
    /\ pc' = [pc EXCEPT ![t] = InCall(op, TRUE, <<>>)]
    /\ UNCHANGED <<beside_clock, now, clock, holder>>

\* thread t enters list, source or file
HostCall(t, op) ==
    /\ pc[t].at = "idle"
    /\ MayBorrow(pc, t)
    /\ pc' = [pc EXCEPT ![t] = InCall(op, FALSE, <<>>)]
    /\ UNCHANGED <<beside_clock, now, clock, holder>>

\* thread t enters svg or pdf: typst::compile(self) begins
HostCompile(t, op) ==
    /\ pc[t].at = "idle"
    /\ MayBorrowMut(pc, t)
    /\ compiles < MaxCompiles
    /\ pc' = [pc EXCEPT ![t] = Compiling(op, files, 0, FALSE)]
    /\ UNCHANGED <<beside_clock, now, clock, holder>>

\* the engine, on the thread of the compilation, asks for a source or file
EngineQuery(t, op) ==
    /\ pc[t].at = "compiling"
    /\ pc[t].asked < MaxQueries
    /\ pc' = [pc EXCEPT ![t] =
                InCall(op, TRUE,
                       <<[pc[t] EXCEPT !.asked = pc[t].asked + 1]>>)]
    /\ UNCHANGED <<beside_clock, now, clock, holder>>

\* self.files.lock() returns the guard
Acquire(t) ==
    /\ pc[t].at = "want"
    /\ holder = 0
    /\ ~LockIsErr(poisoned)
    /\ holder' = t
    /\ pc' = [pc EXCEPT ![t].at = "locked"]
    /\ UNCHANGED <<beside_clock, now, clock>>

\* the map after the critical section of call c
FilesAfter(fs, c) ==
    IF c.op = "write" THEN WriteFiles(fs, c.name, c.text)
    ELSE IF c.op = "attach" THEN AttachFiles(fs, c.name, c.data)
    ELSE IF c.op = "delete" THEN DeleteFiles(fs, c.name)
    ELSE fs

\* what a query answers to the engine
AnswerAfter(fs, p, c) ==
    IF c.op = "source" THEN WorldSource(fs, p, c.id)
    ELSE IF c.op = "file" THEN WorldFile(fs, p, c.id)
    ELSE FileOk(<<>>)

\* a guard that is kept when the method returns an error
HolderAfterKeptOnErr(t, answer) == IF answer.tag # "Ok" THEN t ELSE 0

\* the guard is a local of the method: it is dropped when the method
\* returns, whatever it returns
HolderAfter(t, answer) == 0

\* the critical section of the call and its return
Return(t) ==
    /\ pc[t].at = "locked"
    /\ \E c \in {d \in MutCalls \cup SharedCalls : d.op = pc[t].op} :
         LET answer == AnswerAfter(files, poisoned, c)
         IN
           /\ files' = FilesAfter(files, c)
           /\ holder' = HolderAfter(t, answer)
           /\ pc' = [pc EXCEPT ![t] =
                       IF pc[t].compile = <<>> THEN Idle
                       ELSE [pc[t].compile[1] EXCEPT !.failed =
                               @ \/ answer.tag # "Ok"]]
    /\ UNCHANGED <<main, poisoned, errors, compiles, last, catalog, now,
                   clock>>

\* typst::compile returns and svg() or pdf() stores the diagnostics
CompileReturn(t) ==
    /\ pc[t].at = "compiling"
    /\ \E res \in CompileResults(main, files, poisoned, compiles + 1) :
        \E today \in MayAskToday(res) :
          /\ errors' = SinkAfter(errors, res)
          /\ now' = (IF today THEN GetOrInit(now, clock) ELSE now)
    /\ compiles' = compiles + 1
    /\ pc' = [pc EXCEPT ![t] = Idle]
    /\ UNCHANGED <<main, files, poisoned, last, catalog, clock, holder>>

NextThreads ==
    \/ \E t \in Threads, op \in {"write", "attach", "delete"} :
          HostCallMut(t, op)
    \/ \E t \in Threads, op \in {"list", "source", "file"} : HostCall(t, op)
    \/ \E t \in Threads, op \in {"svg", "pdf"} : HostCompile(t, op)
    \/ \E t \in Threads, op \in {"source", "file"} : EngineQuery(t, op)
    \/ \E t \in Threads : Acquire(t)
    \/ \E t \in Threads : Return(t)
    \/ \E t \in Threads : CompileReturn(t)

\* threads that call the methods of one adapter
SpecThreads == Init /\ [][NextThreads]_vars

(* ------------------------------ properties ----------------------------- *)

\* a name that is its own normalised rootless path
IsNormalName(name) == AsRootlessPath(from_name(name).vpath) = name

C2_AfterNew ==
    last.op = "new" =>
        /\ DOMAIN files = {WorldMain(main)}
        /\ ListPaths(files) = (<<"main.typ">> :> 1)
        /\ files[WorldMain(main)].kind = "Text"

C2_Witness ==
    /\ last.op = "new"
    /\ compiles = 0
    /\ Cardinality(DOMAIN files) = 1

\* C3: a delete(n) that gets the lock returns normally, leaves no entry for
\* n's identifier (so list() does not contain n), and leaves every other
\* entry as it was; if n was not stored the store is unchanged.
C3_DeleteRemoves ==
    [][ (last'.op = "delete" /\ ~LockIsErr(poisoned)) =>
          LET n == last'.arg.name
              id == from_name(n)
          IN  /\ last'.outcome = "returned"
              /\ id \notin DOMAIN files'
              /\ CopiesIn(n, ListPaths(files')) = 0
              /\ DOMAIN files' = DOMAIN files \ {id}
              /\ \A j \in DOMAIN files' : files'[j] = files[j]
              /\ id \notin DOMAIN files => files' = files
      ]_vars

\* a delete that removed an entry and left another one
C3_Witness ==
    /\ last.op = "delete"
    /\ last.outcome = "returned"
    /\ last.ret # "None"
    /\ Cardinality(DOMAIN files) >= 1
    /\ from_name(last.arg.name) \notin DOMAIN files

\* C4: while the lock can be acquired, source(id) succeeds with the entry's
\* source if id maps to a Text entry, fails with NotSource if it maps to a
\* Bin entry, and fails with NotFound carrying id's rootless path if id has
\* no entry.
C4_SourceOutcomes ==
    (last.op = "source" /\ ~LockIsErr(poisoned)) =>
        LET id == last.arg.id
            r == last.ret
        IN  /\ last.outcome = "returned"
            /\ IF id \in DOMAIN files
                 THEN IF files[id].kind = "Text"
                        THEN /\ r.tag = "Ok"
                             /\ r.val.text = files[id].source.text
                             /\ r.val.id = id
                        ELSE /\ files[id].kind = "Bin"
                             /\ r.tag = "NotSource"
                 ELSE /\ r.tag = "NotFound"
                      /\ r.path = AsRootlessPath(id.vpath)

\* a source query that met a binary entry
C4_Witness ==
    /\ last.op = "source"
    /\ ~poisoned
    /\ last.arg.id \in DOMAIN files
    /\ files[last.arg.id].kind = "Bin"
    /\ last.ret.tag = "NotSource"

\* the calls that change the entry of identifier id
MutatesId(l, id) ==
    /\ l.op \in {"write", "attach", "delete"}
    /\ from_name(l.arg.name) = id

\* C5: after an attach(name, b) that gets the lock, and as long as no write,
\* attach or delete of that identifier follows, file() of the name's
\* identifier answers exactly b and source() of it fails with NotSource.
C5_AttachThenFile ==
    [][ /\ (last'.op = "attach" /\ last'.ret # "NoLock") =>
              LET id == from_name(last'.arg.name)
              IN  /\ WorldFile(files', poisoned', id) = FileOk(last'.arg.data)
                  /\ WorldSource(files', poisoned', id).tag = "NotSource"
        /\ \A id \in DOMAIN files :
              (files[id].kind = "Bin" /\ ~MutatesId(last', id)) =>
                  /\ id \in DOMAIN files'
                  /\ files'[id] = files[id]
        /\ (/\ last'.op \in {"file", "source"}
            /\ ~LockIsErr(poisoned)
            /\ last'.arg.id \in DOMAIN files
            /\ files[last'.arg.id].kind = "Bin") =>
              IF last'.op = "file"
                THEN last'.ret = FileOk(files[last'.arg.id].bytes)
                ELSE last'.ret.tag = "NotSource"
      ]_vars

\* a file query that answered the bytes of an attached blob
C5_Witness ==
    /\ last.op = "file"
    /\ last.arg.id \in DOMAIN files
    /\ files[last.arg.id].kind = "Bin"
    /\ last.ret.tag = "Ok"
    /\ last.ret.val # <<>>
    /\ last.ret.val = files[last.arg.id].bytes

\* the engine's answer in the record of an svg() or pdf() call
AnswerOf(l) == l.arg.res

\* C6: the sink holds only records of the most recent compilation, and
\* errors() returns exactly the sink's records.
C6_SinkIsLatest ==
    /\ \A i \in DOMAIN errors : errors[i].run = compiles
    /\ last.op \in {"svg", "pdf"} => errors = AnswerOf(last).diags
    /\ last.op = "errors" =>
          /\ Len(last.ret) = Len(errors)
          /\ \A i \in DOMAIN errors : last.ret[i] = FormatDiag(errors[i])

\* errors() after a second compilation that left one record
C6_Witness ==
    /\ last.op = "errors"
    /\ compiles >= 2
    /\ Len(last.ret) = 1

\* C7: after svg() or pdf() the sink is exactly the engine's list: its
\* errors, with an empty result returned, if no document was produced; its
\* warnings if one was.
C7_SinkSetPerOutcome ==
    last.op \in {"svg", "pdf"} =>
        LET res == AnswerOf(last)
        IN  /\ last.outcome = "returned"
            /\ errors = res.diags
            /\ res.output = "Err" => (last.ret = <<>> /\ errors # <<>>)
            /\ res.output = "Ok" =>
                  \A i \in DOMAIN errors :
                      errors[i].severity = "warning" /\ errors[i].run = compiles

\* a second compilation that produced a document without warnings
C7_Witness ==
    /\ last.op \in {"svg", "pdf"}
    /\ compiles >= 2
    /\ AnswerOf(last).output = "Ok"
    /\ errors = <<>>
    /\ last.ret # <<>>

\* C8 as claimed: with the lock poisoned, write, attach and delete return
\* normally and leave the store unchanged.
C8_AsClaimed ==
    [][ (LockIsErr(poisoned) /\ last'.op \in {"write", "attach", "delete"}) =>
          /\ last'.outcome = "returned"
          /\ files' = files
      ]_vars

\* C9 as claimed: with the lock poisoned, source and file answer
\* AccessDenied and no read operation, list() included, aborts.
C9_AsClaimed ==
    (LockIsErr(poisoned) /\ last.op \in {"list", "source", "file"}) =>
        /\ last.outcome = "returned"
        /\ last.op \in {"source", "file"} => last.ret.tag = "AccessDenied"

\* C10: main() answers the identifier of "/main.typ" in every state, whatever
\* was written, attached, deleted or compiled.
C10_MainFixed ==
    /\ WorldMain(main) = [package |-> "None", vpath |-> <<"/", "main.typ">>]
    /\ WorldMain(main) = NewMain
    /\ last.op = "main" => last.ret = NewMain

\* main() called after main.typ was deleted and a compilation was run
C10_Witness ==
    /\ last.op = "main"
    /\ last.ret \notin DOMAIN files
    /\ compiles >= 1

\* C12: book() and the font sequence have the same length, font(i) succeeds
\* for every index i of the table with the font whose info is entry i, and
\* both are still what new() built.
C12_CatalogCorrespondence ==
    /\ Len(WorldBook(book)) = Len(fonts)
    /\ \A i \in 0..(Len(WorldBook(book)) - 1) :
          /\ WorldFont(fonts, i).outcome = "returned"
          /\ WorldFont(fonts, i).ret[1].info = WorldBook(book)[i + 1]
    /\ book = get_default_fonts.book
    /\ fonts = get_default_fonts.fonts
    /\ (last.op = "font" /\ last.arg.index < Len(WorldBook(book))) =>
          /\ last.outcome = "returned"
          /\ last.ret[1].info = WorldBook(book)[last.arg.index + 1]

\* font(i) for the second face of a blob, after a compilation and a write
C12_Witness ==
    /\ last.op = "font"
    /\ last.outcome = "returned"
    /\ last.ret[1].index = 1
    /\ compiles >= 1
    /\ Cardinality(DOMAIN files) >= 2

\* the file a compilation found missing: main, or else the file main refers
\* to (<<>> when neither is missing)
MissingAt(res) ==
    IF WorldMain(main) \notin DOMAIN files THEN <<WorldMain(main)>>
    ELSE IF res.ref # <<>> /\ res.ref[1].id \notin DOMAIN files
      THEN <<res.ref[1].id>>
    ELSE <<>>

\* C13: a compilation whose main file, or a file the main file refers to,
\* has no entry returns the empty result, and errors() afterwards has an
\* entry that names the missing path.
C13_MissingFileFails ==
    (last.op \in {"svg", "pdf"} /\ MissingAt(last.arg.res) # <<>>) =>
        LET path == AsRootlessPath(MissingAt(last.arg.res)[1].vpath)
            lines == ErrorsResult(errors)
        IN  /\ last.ret = <<>>
            /\ last.arg.res.output = "Err"
            /\ lines # <<>>
            /\ \E i \in DOMAIN lines : lines[i][4] = <<"NotFound", path>>

\* svg() of a main file that refers to a file that is not stored
C13_Witness ==
    /\ last.op = "svg"
    /\ WorldMain(main) \in DOMAIN files
    /\ last.arg.res.ref # <<>>
    /\ last.arg.res.ref[1].id \notin DOMAIN files
    /\ last.ret = <<>>
    /\ errors # <<>>

\* C14: when the compilation produced a document and the PDF encoder failed,
\* pdf() returns no bytes, as after a failed compilation, and the sink holds
\* exactly the warnings of the compilation.
C14_PdfFailureAbsorbed ==
    (last.op = "pdf" /\ last.arg.res.output = "Ok" /\ ~last.arg.encoded) =>
        /\ last.outcome = "returned"
        /\ last.ret = <<>>
        /\ errors = last.arg.res.diags
        /\ \A i \in DOMAIN errors : errors[i].severity = "warning"
        /\ Len(ErrorsResult(errors)) = Len(last.arg.res.diags)

\* pdf() whose encoder failed after a compilation with a warning
C14_Witness ==
    /\ last.op = "pdf"
    /\ last.arg.res.output = "Ok"
    /\ ~last.arg.encoded
    /\ Len(errors) = 1
    /\ last.ret = <<>>

\* the text a sequence of bytes is the UTF-8 encoding of (<<0 - 1>> for
\* bytes that are not the encoding of a text of code points below 2048)
RECURSIVE Utf8Decode(_)
Utf8Decode(bytes) ==
    IF bytes = <<>> THEN <<>>
    ELSE IF bytes[1] < 128
      THEN LET rest == Utf8Decode(Tail(bytes))
           IN  IF rest = <<0 - 1>> THEN rest ELSE <<bytes[1]>> \o rest
    ELSE IF Len(bytes) >= 2 /\ bytes[1] \in 192..223 /\ bytes[2] \in 128..191
      THEN LET rest == Utf8Decode(Tail(Tail(bytes)))
           IN  IF rest = <<0 - 1>> THEN rest
               ELSE <<(bytes[1] - 192) * 64 + (bytes[2] - 128)>> \o rest
    ELSE <<0 - 1>>

\* C15: file() of an identifier with a Text entry answers the UTF-8 bytes of
\* the text last written to it and source() answers that text, directly
\* after the write as well as later; file() of an identifier without an entry
\* fails with NotFound and the rootless path.
C15_FileOfText ==
    [][ /\ (last'.op = "write" /\ last'.ret # "NoLock") =>
              LET id == from_name(last'.arg.name)
                  bytes == WorldFile(files', poisoned', id)
                  src == WorldSource(files', poisoned', id)
              IN  /\ bytes.tag = "Ok"
                  /\ Utf8Decode(bytes.val) = last'.arg.text
                  /\ src.tag = "Ok"
                  /\ src.val.text = last'.arg.text
        /\ (last'.op = "file" /\ ~LockIsErr(poisoned)) =>
              LET id == last'.arg.id
                  r == last'.ret
              IN  IF id \notin DOMAIN files
                    THEN r = FileErr("NotFound", AsRootlessPath(id.vpath))
                  ELSE IF files[id].kind = "Text"
                    THEN /\ r.tag = "Ok"
                         /\ Utf8Decode(r.val) = files[id].source.text
                         /\ WorldSource(files, poisoned, id).val.text
                              = files[id].source.text
                  ELSE r.tag = "Ok"
      ]_vars

\* file() of a text that was written by the host
C15_Witness ==
    /\ last.op = "file"
    /\ last.arg.id \in DOMAIN files
    /\ files[last.arg.id].kind = "Text"
    /\ files[last.arg.id].source.text \notin {<<>>, ReadyText}
    /\ last.ret.tag = "Ok"
    /\ Len(last.ret.val) = 2 * Len(files[last.arg.id].source.text)

\* the state of the adapter but for the file map and the sink
BesideStoreAndSink == <<main, poisoned, catalog, now>>

\* C19: svg() and pdf() change only the sink and may set the unset clock
\* cell; write, attach and delete change only the entry of the named
\* identifier and leave the sink, hence errors(), alone; list(), errors(),
\* main(), source() and file() change nothing.
C19_Frame ==
    [][ /\ last'.op \in {"svg", "pdf"} =>
              /\ files' = files
              /\ <<main, poisoned, catalog>>' = <<main, poisoned, catalog>>
              /\ now' = now \/ (now = <<>> /\ now' = <<LocalNow(clock)>>)
        /\ last'.op \in {"write", "attach", "delete"} =>
              /\ errors' = errors
              /\ ErrorsResult(errors') = ErrorsResult(errors)
              /\ BesideStoreAndSink' = BesideStoreAndSink
              /\ \A j \in (DOMAIN files \cup DOMAIN files')
                          \ {from_name(last'.arg.name)} :
                    /\ j \in DOMAIN files
                    /\ j \in DOMAIN files'
                    /\ files'[j] = files[j]
        /\ last'.op \in {"list", "errors", "main", "source", "file"} =>
              /\ files' = files
              /\ errors' = errors
              /\ BesideStoreAndSink' = BesideStoreAndSink
      ]_vars

\* a write after a compilation that failed: the sink still holds its error
C19_Witness ==
    /\ last.op = "write"
    /\ last.ret # "NoLock"
    /\ compiles >= 1
    /\ errors # <<>>
    /\ errors[1].severity = "error"
    /\ now # <<>>

\* C20: write, attach and delete use one identifier per name, that of the
\* path "/" + name, and "main.typ" gives main(): an attach over a written
\* entry, or a write over an attached one, replaces it in place; delete
\* removes an entry of either kind; write("main.typ", t) sets main's entry.
C20_OneIdentifierPerName ==
    [][ last'.op \in {"write", "attach", "delete"} =>
          LET n == last'.arg.name
              id == from_path(SlashName(n))
              stored == last'.ret # "NoLock" /\ last'.outcome = "returned"
              after == /\ last.op \in {"write", "attach"}
                       /\ last.ret # "NoLock"
                       /\ last.arg.name = n
              variant == IF last.op = "write" THEN "Text" ELSE "Bin"
          IN  /\ from_name(n) = id
              /\ (n = <<"main.typ">>) => (id = WorldMain(main))
              /\ (last'.op # "delete" /\ stored) =>
                    /\ id \in DOMAIN files'
                    /\ files'[id].kind
                         = (IF last'.op = "write" THEN "Text" ELSE "Bin")
                    /\ last'.ret = InsertReturn(files, id)
                    /\ (id \in DOMAIN files) => (DOMAIN files' = DOMAIN files)
                    /\ after => (last'.ret = variant)
                    /\ (last'.op = "write" /\ n = <<"main.typ">>) =>
                          files'[WorldMain(main)].source.text = last'.arg.text
              /\ (last'.op = "delete" /\ stored) =>
                    /\ id \notin DOMAIN files'
                    /\ last'.ret = RemoveReturn(files, id)
                    /\ after => (last'.ret = variant)
      ]_vars

\* an attach that replaced the text entry of main.typ
C20_Witness ==
    /\ last.op = "attach"
    /\ last.ret = "Text"
    /\ last.arg.name = <<"main.typ">>
    /\ files[WorldMain(main)].kind = "Bin"
    /\ Cardinality(DOMAIN files) = 2

\* C11: the clock cell is set at most once: every reference a call of
\* today() gets, under any interleaving of the calls with each other and
\* with the clock, is to the one value in the cell, and two calls with the
\* same offset end the same way, with the same date.
C11_OneSnapshot ==
    [][ /\ (now # <<>>) => (now' = now)
        /\ \A t \in Threads :
              pc'[t].at \in {"have", "done"} =>
                 /\ now' # <<>>
                 /\ pc'[t].snap = now'[1]
        /\ \A t, u \in Threads :
              (/\ pc'[t].at = "done"
               /\ pc'[u].at = "done"
               /\ pc'[t].offset = pc'[u].offset) =>
                 /\ pc'[t].outcome = pc'[u].outcome
                 /\ pc'[t].ret = pc'[u].ret
      ]_vars

\* two calls with no offset returned the same date, one of them after the
\* clock had gone past midnight UTC, and both had raced for the cell
C11_Witness ==
    /\ pc[1].at = "done"
    /\ pc[2].at = "done"
    /\ pc[1].offset = <<Hours(0, 1)>>
    /\ pc[2].offset = pc[1].offset
    /\ pc[1].ticks < pc[2].ticks
    /\ pc[1].ret = pc[2].ret
    /\ pc[1].ret # <<>>
    /\ CivilFromDays(clock.utc.day) # CivilFromDays(now[1].utc.day)

\* the date the claim gives for a snapshot and an offset
ClaimedDate(snap, offset) ==
    IF offset = <<>>
      THEN CivilFromDays(AddHours(snap.utc, Hours(0, snap.tz)).day)
      ELSE CivilFromDays(AddHours(snap.utc, offset[1]).day)

\* C16 (as claimed): every call of today(offset) returns the calendar date
\* of the snapshot, in local time when there is no offset, and of the
\* snapshot's UTC time plus the offset's hours when there is one.
C16_AsClaimed ==
    \A t \in Threads :
        pc[t].at = "done" =>
            /\ pc[t].outcome = "returned"
            /\ pc[t].ret = <<ClaimedDate(pc[t].snap, pc[t].offset)>>

\* a thread is inside svg() or pdf(): in the engine, or in one of its queries
InCompile(p) ==
    \/ p.at = "compiling"
    \/ p.at \in {"want", "locked"} /\ p.compile # <<>>

\* the files the compilation of a thread started with
StartOf(p) == IF p.at = "compiling" THEN p.start ELSE p.compile[1].start

\* C17 (as claimed): while a thread is inside svg() or pdf(), another thread
\* can enter write, attach or delete (and its insert or remove then takes
\* effect before the next query of the compilation).
C17_AsClaimed ==
    \A t, u \in Threads :
        (t # u /\ InCompile(pc[u]) /\ pc[t].at = "idle") =>
            ENABLED HostCallMut(t, "write")

\* C17 (as amended): svg() and pdf() hold the adapter exclusively: while a
\* thread is inside one of them no other thread is inside any method, the
\* file map does not change, and every query of the compilation reads the
\* map the compilation started with.
C17_CompileIsExclusive ==
    [][ \A u \in Threads :
          InCompile(pc[u]) =>
             /\ files' = files
             /\ StartOf(pc[u]) = files
             /\ \A t \in Threads \ {u} : pc[t].at = "idle" /\ pc'[t].at = "idle"
      ]_vars

\* a compilation that has had the answer to a query, after a write, while
\* another thread is idle
C17_Witness ==
    /\ InCompile(pc[1])
    /\ pc[1].at = "compiling"
    /\ pc[1].asked >= 1
    /\ pc[2].at = "idle"
    /\ from_name(<<"img.png">>) \in DOMAIN files
    /\ files[from_name(<<"img.png">>)].kind = "Text"

\* C18: the lock is held by a thread exactly while it is in the critical
\* section of a store operation, so it is free again when the operation has
\* returned, with or without an error; at most one thread is in a critical
\* section; the map changes only there; and a query of a compilation finds
\* the lock free, never held by an earlier query of the same compilation.
C18_LockDiscipline ==
    [][ /\ \A t \in Threads : (holder' = t) <=> (pc'[t].at = "locked")
        /\ Cardinality({t \in Threads : pc'[t].at = "locked"}) <= 1
        /\ (files' # files) => (holder # 0 /\ pc[holder].at = "locked")
        /\ \A t \in Threads :
              (pc'[t].at = "want" /\ pc'[t].compile # <<>>) => (holder' = 0)
      ]_vars

\* the second query of a compilation holds the lock after the first query
\* returned an error
C18_Witness ==
    /\ pc[1].at = "locked"
    /\ holder = 1
    /\ pc[1].compile # <<>>
    /\ pc[1].compile[1].asked = 2
    /\ pc[1].compile[1].failed

====
